---- MODULE Spec2Model ----
(***************************************************************************)
(* Model of FinEquityCliquetOption (financepy/products/equity):            *)
(* construction of the instrument with its schedule of expiry dates, and   *)
(* the valuation of the cliquet as a sequence of forward-start options.    *)
(*                                                                         *)
(* Dates are day numbers (as FinDate's excel date), times are year         *)
(* fractions in thousandths of a year, discount factors and dividend       *)
(* yields are in thousandths, volatilities and unit option prices in       *)
(* millionths.  Floating point values of the code are fixed-point          *)
(* integers here.                                                          *)
(***************************************************************************)
EXTENDS Integers, Sequences, FiniteSets

\* ------------------------------------------------------------------------
\* Bounds of the model
\* ------------------------------------------------------------------------

\* number of month slots of the date grid; dates are 0, 30, ..., 30*MaxMonth
MaxMonth == 4

\* ------------------------------------------------------------------------
\* Program constants and units
\* ------------------------------------------------------------------------

\* gDaysInYear of FinGlobalVariables
gDaysInYear == 365

\* fixed-point one for year fractions, discount factors and yields
Scale == 1000

\* the floor 1e-6 of the volatility, in millionths
VolFloor == 1

\* days in one month of the schedule grid
DaysPerMonth == 30

Dates == {DaysPerMonth * k : k \in 0..MaxMonth}

\* FinOptionTypes (the members the constructor can be handed)
OptionTypes == {"EUROPEAN_CALL", "EUROPEAN_PUT", "AMERICAN_CALL"}

\* FinFrequencyTypes: the number of periods per year
FrequencyTypes == {4, 12}

\* stock prices, dividend yields (thousandths) handed to value
StockPrices == {10}
DividendYields == {0, 30}

\* models handed to value: flat Black-Scholes with a volatility (millionths),
\* or another model class
Models ==
  { [kind |-> "FinEquityModelBlackScholes", volatility |-> 200000],
    [kind |-> "FinEquityModelBlackScholes", volatility |-> 0],
    [kind |-> "FinEquityModelHeston", volatility |-> 200000] }

\* flat discount curves, named by their continuously compounded rate
\* (thousandths) and anchored at day 0
Curves == {[rate |-> 0], [rate |-> 50]}

\* ------------------------------------------------------------------------
\* Collaborators
\* ------------------------------------------------------------------------

Max(a, b) == IF a >= b THEN a ELSE b

\* integer square root, by bisection: the root lies in lo..hi
RECURSIVE IsqrtIn(_, _, _)
IsqrtIn(x, lo, hi) ==
  IF lo >= hi THEN lo
  ELSE LET mid == (lo + hi + 1) \div 2
       IN  IF mid * mid <= x THEN IsqrtIn(x, mid, hi)
           ELSE IsqrtIn(x, lo, mid - 1)

Isqrt(x) == IsqrtIn(x, 0, 1024)

\* discountCurve.df(dt): discount factor of a flat curve, first order
Df(curve, dt) == Scale - (curve.rate * dt) \div gDaysInYear

\* -np.log(df), to first order around df = 1
NegLog(df) == ((Scale - df) * Scale) \div df

\* np.exp(-x) for x in thousandths, to second order; exactly one at x = 0
ExpNeg(x) == Scale - x + (x * x) \div (2 * Scale)

\* bsValue(F, t, K, r, q, vol, phi): the unit option price, in millionths.
\* Time value of an (almost) at-the-money option plus half of the forward
\* intrinsic value, signed by phi (+1 call, -1 put).
bsValue(F, t, K, r, q, vol, phi) ==
  LET timeValue == (4 * vol * Isqrt(t * Scale)) \div (10 * Scale)
      carry     == (F - K) * Scale * Scale + F * (r - q) * t
  IN  F * timeValue + (phi * carry) \div 2

\* FinSchedule(start, end, frequency, ...).generate(): the period end dates,
\* stepping backward from the end date in whole periods down to the start
\* date, in increasing order
PeriodDays(frequencyType) == (12 \div frequencyType) * DaysPerMonth

RECURSIVE BackwardDates(_, _, _)
BackwardDates(d, start, step) ==
  IF d < start THEN <<>>
  ELSE Append(BackwardDates(d - step, start, step), d)

FinScheduleGenerate(start, end, frequencyType) ==
  BackwardDates(end, start, PeriodDays(frequencyType))

\* ------------------------------------------------------------------------
\* State
\* ------------------------------------------------------------------------

VARIABLES
  constructed,      \* an instrument exists (its constructor returned)
  startDate,        \* self._startDate
  finalExpiryDate,  \* self._finalExpiryDate
  optionType,       \* self._optionType
  frequencyType,    \* self._frequencyType
  expiryDates,      \* self._expiryDates
  hasFlows,         \* the three buffers below exist (value has assigned them)
  v_options,        \* self._v_options
  dfs,              \* self._dfs
  actualDates,      \* self._actualDates
  last,             \* the last call: its arguments, outcome and what it
                    \* asked of its collaborators
  probe             \* an earlier value call kept for comparison: its
                    \* record, the buffers and schedule it left, and whether
                    \* a call with other arguments came after it

inst == <<constructed, startDate, finalExpiryDate, optionType, frequencyType,
          expiryDates>>
flows == <<hasFlows, v_options, dfs, actualDates>>
vars == <<constructed, startDate, finalExpiryDate, optionType, frequencyType,
          expiryDates, hasFlows, v_options, dfs, actualDates, last, probe>>

NoModel == [kind |-> "None", volatility |-> 0]
NoCurve == [rate |-> 0]

\* the record of a call: the arguments of __init__ or of value (the others
\* at their defaults), the outcome, the value returned, and the calls made
\* to the unit pricer, the discount curve and the schedule generator
InitCall(start, final, typ, freq, outcome, sched) ==
  [op |-> "init", outcome |-> outcome, ret |-> 0,
   startDate |-> start, finalExpiryDate |-> final, optionType |-> typ,
   frequencyType |-> freq,
   valueDate |-> 0, stockPrice |-> 0, discountCurve |-> NoCurve,
   dividendYield |-> 0, model |-> NoModel,
   pricerCalls |-> <<>>, curveCalls |-> <<>>, scheduleCalls |-> sched]

ValueCall(valueDate, s0, curve, q, model, outcome, ret, pricer, curveAsk) ==
  [op |-> "value", outcome |-> outcome, ret |-> ret,
   startDate |-> 0, finalExpiryDate |-> 0, optionType |-> "None",
   frequencyType |-> 0,
   valueDate |-> valueDate, stockPrice |-> s0, discountCurve |-> curve,
   dividendYield |-> q, model |-> model,
   pricerCalls |-> pricer, curveCalls |-> curveAsk, scheduleCalls |-> 0]

NoCall == [InitCall(0, 0, "None", 0, "none", 0) EXCEPT !.op = "none"]

NoProbe ==
  [taken |-> FALSE, between |-> FALSE, call |-> NoCall,
   v_options |-> <<>>, dfs |-> <<>>, actualDates |-> <<>>,
   expiryDates |-> <<>>, optionType |-> "None"]

Init ==
  /\ constructed = FALSE
  /\ startDate = 0
  /\ finalExpiryDate = 0
  /\ optionType = "None"
  /\ frequencyType = 0
  /\ expiryDates = <<>>
  /\ hasFlows = FALSE
  /\ v_options = <<>>
  /\ dfs = <<>>
  /\ actualDates = <<>>
  /\ last = NoCall
  /\ probe = NoProbe

\* ------------------------------------------------------------------------
\* __init__
\* ------------------------------------------------------------------------

\* the option type check of the constructor
UnknownOptionType(typ) == typ /= "EUROPEAN_CALL" /\ typ /= "EUROPEAN_PUT"

ExpiryNotAfterStart(start, final) == final <= start

\* the date order check of the constructor
ExpiryPrecedesStart(start, final) == final < start

\* a constructor that raised leaves no instrument
NoInstrument ==
  /\ constructed' = FALSE
  /\ startDate' = 0
  /\ finalExpiryDate' = 0
  /\ optionType' = "None"
  /\ frequencyType' = 0
  /\ expiryDates' = <<>>

\* FinEquityCliquetOption(startDate, finalExpiryDate, optionType, frequencyType)
\* builds a new object: its flow buffers do not exist yet
Construct(start, final, typ, freq) ==
  /\ ~constructed
  /\ UNCHANGED probe
  /\ hasFlows' = FALSE
  /\ v_options' = <<>>
  /\ dfs' = <<>>
  /\ actualDates' = <<>>
  /\ IF UnknownOptionType(typ)
       THEN /\ NoInstrument
            /\ last' = InitCall(start, final, typ, freq, "UnknownOptionType", 0)
       ELSE IF ExpiryPrecedesStart(start, final)
       THEN /\ NoInstrument
            /\ last' = InitCall(start, final, typ, freq,
                                "ExpiryPrecedesStart", 0)
       ELSE /\ constructed' = TRUE
            /\ startDate' = start
            /\ finalExpiryDate' = final
            /\ optionType' = typ
            /\ frequencyType' = freq
            /\ expiryDates' = FinScheduleGenerate(start, final, freq)
            /\ last' = InitCall(start, final, typ, freq, "ok", 1)

\* ------------------------------------------------------------------------
\* value
\* ------------------------------------------------------------------------

OnOrAfterFinalExpiry(valueDate, final) == valueDate >= final

\* the check of the value date against the final expiry date
AfterFinalExpiry(valueDate, final) == valueDate > final

HasVolatility(model) == model.kind /= "None"

\* type(model) == FinEquityModelBlackScholes
IsBlackScholes(model) == model.kind = "FinEquityModelBlackScholes"

UnflooredVol(vol) == vol

\* vol = max(vol, 1e-6)
FlooredVol(vol) == Max(vol, VolFloor)

ResetFlowsPartly(f) == [f EXCEPT !.v_options = <<>>, !.dfs = <<>>]

KeepFlows(f) == f

\* the buffers as value resets them before the loop
ResetFlows(f) == [v_options |-> <<>>, dfs |-> <<>>, actualDates |-> <<>>]

IsPricedFromValueDate(dt, valueDate) == dt >= valueDate

\* the dates of the schedule that are priced
IsPriced(dt, valueDate) == dt > valueDate

\* t = (dt - valueDate) / gDaysInYear
YearFrac(dt, valueDate) == ((dt - valueDate) * Scale) \div gDaysInYear

\* r = -np.log(df) / t  (numpy divides by zero without raising; the model
\* gives 0 there)
ZeroRate(df, t) == IF t = 0 THEN 0 ELSE (NegLog(df) * Scale) \div t

\* texp = t - tprev
PeriodLength(t, tprev) == t - tprev

\* dq = np.exp(-q * tprev)
DivDiscount(q, tprev) == ExpNeg((q * tprev) \div Scale)

\* the option type argument handed to bsValue for the instrument's type
\* (+1 is a call, -1 a put); the instrument's type is a European call or put
\* since __init__ accepts no other, so the loop's own raise is never reached
PhiArg(typ) == IF typ = "EUROPEAN_CALL" THEN 1 ELSE 1

\* the arguments of one call of bsValue
PricerArgs(texp, r, q, vol, phi) ==
  [F |-> 1, t |-> texp, K |-> 1, r |-> r, q |-> q, vol |-> vol, phi |-> phi]

PricerValue(a) == bsValue(a.F, a.t, a.K, a.r, a.q, a.vol, a.phi)

\* v = s0 * dq * bsValue(...), in millionths
LegValue(s0, dq, bs) == (s0 * dq * bs) \div Scale

AccumulateOverwrite(v_cliquet, v) == v

\* v_cliquet += v
Accumulate(v_cliquet, v) == v_cliquet + v

KeepTprev(t, tprev) == tprev

\* tprev = t at the end of a priced leg
NextTprev(t, tprev) == t

\* one pass of the loop body for the schedule date dt; acc carries the local
\* variables and the buffers
LegStep(acc, dt, valueDate, s0, curve, q, vol, typ) ==
  IF ~IsPriced(dt, valueDate) THEN acc
  ELSE
    LET df   == Df(curve, dt)
        t    == YearFrac(dt, valueDate)
        r    == ZeroRate(df, t)
        texp == PeriodLength(t, acc.tprev)
        dq   == DivDiscount(q, acc.tprev)
        args == PricerArgs(texp, r, q, vol, PhiArg(typ))
        v    == LegValue(s0, dq, PricerValue(args))
    IN  [v_cliquet   |-> Accumulate(acc.v_cliquet, v),
         tprev       |-> NextTprev(t, acc.tprev),
         dfs         |-> Append(acc.dfs, df),
         v_options   |-> Append(acc.v_options, v),
         actualDates |-> Append(acc.actualDates, dt),
         pricerCalls |-> Append(acc.pricerCalls, args),
         curveCalls  |-> Append(acc.curveCalls, dt)]

\* for dt in self._expiryDates, from the i-th date on
RECURSIVE Legs(_, _, _, _, _, _, _, _, _)
Legs(i, acc, dates, valueDate, s0, curve, q, vol, typ) ==
  IF i > Len(dates) THEN acc
  ELSE Legs(i + 1, LegStep(acc, dates[i], valueDate, s0, curve, q, vol, typ),
            dates, valueDate, s0, curve, q, vol, typ)

\* the local variables before the loop
LoopStart(f) ==
  [v_cliquet |-> 0, tprev |-> 0,
   dfs |-> f.dfs, v_options |-> f.v_options, actualDates |-> f.actualDates,
   pricerCalls |-> <<>>, curveCalls |-> <<>>]

\* self.value(valueDate, stockPrice, discountCurve, dividendYield, model)
value(valueDate, s0, curve, q, model) ==
  /\ constructed
  /\ UNCHANGED inst
  /\ IF AfterFinalExpiry(valueDate, finalExpiryDate)
       THEN /\ UNCHANGED flows
            /\ last' = ValueCall(valueDate, s0, curve, q, model,
                                 "ValueDateAfterExpiry", 0, <<>>, <<>>)
       ELSE
         LET f == ResetFlows([v_options |-> v_options, dfs |-> dfs,
                              actualDates |-> actualDates])
         IN  IF ~IsBlackScholes(model)
               THEN /\ hasFlows' = TRUE
                    /\ v_options' = f.v_options
                    /\ dfs' = f.dfs
                    /\ actualDates' = f.actualDates
                    /\ last' = ValueCall(valueDate, s0, curve, q, model,
                                         "UnknownModelType", 0, <<>>, <<>>)
               ELSE
                 \E end \in {Legs(1, LoopStart(f), expiryDates, valueDate, s0,
                                  curve, q, FlooredVol(model.volatility),
                                  optionType)} :
                     /\ hasFlows' = TRUE
                     /\ v_options' = end.v_options
                     /\ dfs' = end.dfs
                     /\ actualDates' = end.actualDates
                     /\ last' = ValueCall(valueDate, s0, curve, q, model, "ok",
                                          end.v_cliquet, end.pricerCalls,
                                          end.curveCalls)

\* the arguments of the value call c
ValueArgs(c) ==
  <<c.valueDate, c.stockPrice, c.discountCurve, c.dividendYield, c.model>>

\* a value call; the probe notes a call with other arguments than its own
Value(valueDate, s0, curve, q, model) ==
  /\ value(valueDate, s0, curve, q, model)
  /\ probe' = IF probe.taken /\ ValueArgs(last') /= ValueArgs(probe.call)
                THEN [probe EXCEPT !.between = TRUE]
                ELSE probe

\* a value call that is kept as the probe, with the buffers it left when it
\* returned a price
ValueProbed(valueDate, s0, curve, q, model) ==
  /\ ~probe.taken
  /\ value(valueDate, s0, curve, q, model)
  /\ LET returned == last'.outcome = "ok"
     IN  probe' = [taken |-> TRUE, between |-> FALSE, call |-> last',
                   v_options |-> IF returned THEN v_options' ELSE <<>>,
                   dfs |-> IF returned THEN dfs' ELSE <<>>,
                   actualDates |-> IF returned THEN actualDates' ELSE <<>>,
                   expiryDates |-> expiryDates', optionType |-> optionType']

\* ------------------------------------------------------------------------
\* Specification
\* ------------------------------------------------------------------------

Next ==
  \/ \E start \in Dates, final \in Dates, typ \in OptionTypes,
        freq \in FrequencyTypes : Construct(start, final, typ, freq)
  \/ \E valueDate \in Dates, s0 \in StockPrices, curve \in Curves,
        q \in DividendYields, model \in Models :
        Value(valueDate, s0, curve, q, model)

Spec == Init /\ [][Next]_vars

\* the same program for the instruments that start on the first date and
\* value calls at the higher dividend yield, with one of the value calls at
\* the higher rate kept as the probe
ProbedStarts == {0}
ProbedCurves == {[rate |-> 50]}
ProbedYields == {30}

NextProbed ==
  \/ \E start \in ProbedStarts, final \in Dates, typ \in OptionTypes,
        freq \in FrequencyTypes : Construct(start, final, typ, freq)
  \/ \E valueDate \in Dates, s0 \in StockPrices, curve \in Curves,
        q \in ProbedYields, model \in Models :
        Value(valueDate, s0, curve, q, model)
  \/ \E valueDate \in Dates, s0 \in StockPrices, curve \in ProbedCurves,
        q \in ProbedYields, model \in Models :
        ValueProbed(valueDate, s0, curve, q, model)

SpecProbed == Init /\ [][NextProbed]_vars

\* ------------------------------------------------------------------------
\* Properties
\* ------------------------------------------------------------------------

RECURSIVE SumSeq(_)
SumSeq(s) == IF s = <<>> THEN 0 ELSE s[1] + SumSeq(Tail(s))

\* the last call was a value call that returned a price
ValueReturned == last.op = "value" /\ last.outcome = "ok"

\* the schedule dates strictly after the date d, in schedule order
DatesAfter(d) == LET After(x) == x > d IN SelectSeq(expiryDates, After)

\* the schedule date d falls on the value date of the last call
SkippedOnValueDate ==
  \E i \in DOMAIN expiryDates : expiryDates[i] = last.valueDate

\* C1: the price returned by value is the sum of the leg values it recorded,
\* and every priced leg is recorded
C1_SumOfLegs ==
  ValueReturned =>
    /\ last.ret = SumSeq(v_options)
    /\ Len(v_options) = Len(last.pricerCalls)

C1_Witness ==
  /\ ValueReturned
  /\ optionType = "EUROPEAN_PUT"
  /\ Len(v_options) >= 3
  /\ \A i \in DOMAIN v_options : v_options[i] > 0

\* C2: after value returns, the recorded dates are the schedule dates after
\* the value date, in order and once each; the three buffers have one entry
\* per leg, the discount factor being the curve's at the leg's date
C2_RecordedLegs ==
  ValueReturned =>
    /\ actualDates = DatesAfter(last.valueDate)
    /\ Len(dfs) = Len(actualDates)
    /\ Len(v_options) = Len(actualDates)
    /\ last.curveCalls = actualDates
    /\ \A i \in DOMAIN actualDates :
         dfs[i] = Df(last.discountCurve, actualDates[i])

C2_Witness ==
  /\ ValueReturned
  /\ SkippedOnValueDate
  /\ Len(actualDates) >= 2
  /\ Len(actualDates) < Len(expiryDates)
  /\ dfs[1] /= dfs[2]

\* C3: the option type argument of every pricer call is the call sign (+1)
\* for a European call and the put sign (-1) for a European put
C3_PricedAsOwnType ==
  ValueReturned =>
    \A i \in DOMAIN last.pricerCalls :
      last.pricerCalls[i].phi = (IF optionType = "EUROPEAN_PUT" THEN -1 ELSE 1)

\* C4: value fails with the after-expiry error exactly when the value date is
\* after the final expiry date, whatever the other arguments, and then
\* returns no price
C4_AfterExpiryFails ==
  last.op = "value" =>
    /\ last.outcome = "ValueDateAfterExpiry"
         <=> last.valueDate > finalExpiryDate
    /\ last.outcome = "ValueDateAfterExpiry" =>
         last.ret = 0 /\ last.pricerCalls = <<>> /\ last.curveCalls = <<>>

C4_Witness ==
  /\ last.op = "value"
  /\ last.outcome = "ValueDateAfterExpiry"
  /\ last.model.kind /= "FinEquityModelBlackScholes"
  /\ last.valueDate = finalExpiryDate + DaysPerMonth

\* C5: a value call that fails leaves the three buffers all as they were or
\* all empty, and leaves the schedule as it was
C5_FailedCallFlows ==
  [][ (last'.op = "value" /\ last'.outcome /= "ok") =>
        /\ \/ <<v_options', dfs', actualDates'>>
                = <<v_options, dfs, actualDates>>
           \/ <<v_options', dfs', actualDates'>> = <<<<>>, <<>>, <<>>>>
        /\ expiryDates' = expiryDates ]_vars

C5_Witness ==
  /\ last.op = "value"
  /\ last.outcome = "ValueDateAfterExpiry"
  /\ hasFlows
  /\ Len(v_options) >= 2
  /\ Len(dfs) = Len(v_options)
  /\ Len(actualDates) = Len(v_options)

\* C6: value with a value date not after the final expiry date and a model
\* that is not the flat Black-Scholes model fails with the model error,
\* prices no leg, returns no price and asks nothing of pricer and curve
C6_UnsupportedModelFails ==
  ( /\ last.op = "value"
    /\ last.valueDate <= finalExpiryDate
    /\ last.model.kind /= "FinEquityModelBlackScholes" ) =>
    /\ last.outcome = "UnknownModelType"
    /\ last.ret = 0
    /\ last.pricerCalls = <<>>
    /\ last.curveCalls = <<>>
    /\ v_options = <<>>

C6_Witness ==
  /\ last.op = "value"
  /\ last.outcome = "UnknownModelType"
  /\ last.valueDate = finalExpiryDate

\* the constructor arguments of the last call are acceptable
EuropeanType == last.optionType \in {"EUROPEAN_CALL", "EUROPEAN_PUT"}

\* what a failed and a successful construction leave behind
ConstructionEffects ==
  /\ last.outcome /= "ok" =>
       /\ last.scheduleCalls = 0
       /\ ~constructed
       /\ expiryDates = <<>>
  /\ last.outcome = "ok" =>
       /\ last.scheduleCalls = 1
       /\ constructed
       /\ expiryDates = FinScheduleGenerate(last.startDate,
                                            last.finalExpiryDate,
                                            last.frequencyType)

\* C7 as stated: construction succeeds exactly for a European call or put
\* with finalExpiryDate >= startDate; any other option type fails with the
\* option type error and finalExpiryDate < startDate always fails with the
\* date order error
C7_AsStated ==
  last.op = "init" =>
    /\ last.outcome = "ok"
         <=> (EuropeanType /\ last.finalExpiryDate >= last.startDate)
    /\ ~EuropeanType => last.outcome = "UnknownOptionType"
    /\ last.finalExpiryDate < last.startDate =>
         last.outcome = "ExpiryPrecedesStart"
    /\ ConstructionEffects

\* C7 as amended: the option type is checked first, so finalExpiryDate <
\* startDate fails with the date order error when the option type is a
\* European call or put
C7_Construction ==
  last.op = "init" =>
    /\ last.outcome = "ok"
         <=> (EuropeanType /\ last.finalExpiryDate >= last.startDate)
    /\ ~EuropeanType => last.outcome = "UnknownOptionType"
    /\ (EuropeanType /\ last.finalExpiryDate < last.startDate) =>
         last.outcome = "ExpiryPrecedesStart"
    /\ ConstructionEffects

C7_Witness ==
  /\ last.op = "init"
  /\ last.outcome = "ok"
  /\ last.startDate = last.finalExpiryDate
  /\ Len(expiryDates) = 1

\* C9: with exactly one schedule date d after the value date, value returns
\* the stock price times the unit price for forward 1, strike 1, the time t
\* from the value date to d, the zero rate -ln(df(d))/t, the dividend yield
\* and the floored volatility, and records one leg
C9_SinglePeriod ==
  (ValueReturned /\ Len(DatesAfter(last.valueDate)) = 1) =>
    LET d == DatesAfter(last.valueDate)[1]
        t == ((d - last.valueDate) * Scale) \div gDaysInYear
        r == (NegLog(Df(last.discountCurve, d)) * Scale) \div t
        vol == IF last.model.volatility > VolFloor
                 THEN last.model.volatility ELSE VolFloor
    IN  /\ Len(last.pricerCalls) = 1
        /\ Len(v_options) = 1
        /\ last.pricerCalls[1].F = 1
        /\ last.pricerCalls[1].K = 1
        /\ last.pricerCalls[1].t = t
        /\ last.pricerCalls[1].r = r
        /\ last.pricerCalls[1].q = last.dividendYield
        /\ last.pricerCalls[1].vol = vol
        /\ last.ret = last.stockPrice * PricerValue(last.pricerCalls[1])

C9_Witness ==
  /\ ValueReturned
  /\ Len(DatesAfter(last.valueDate)) = 1
  /\ Len(expiryDates) >= 2
  /\ last.model.volatility < VolFloor
  /\ last.dividendYield > 0
  /\ last.discountCurve.rate > 0

\* the time from the value date of the last call to the i-th recorded date
TimeOfLeg(i) ==
  IF i = 0 THEN 0
  ELSE ((actualDates[i] - last.valueDate) * Scale) \div gDaysInYear

RECURSIVE SumOfPeriods(_)
SumOfPeriods(n) ==
  IF n = 0 THEN 0 ELSE last.pricerCalls[n].t + SumOfPeriods(n - 1)

\* C10: every priced leg has a positive time from the value date and a
\* positive period length, which is the time since the preceding priced leg
\* (since the value date for the first); the period lengths add up to the
\* time of the last priced leg
C10_PositivePeriods ==
  ValueReturned =>
    /\ Len(last.pricerCalls) = Len(actualDates)
    /\ \A i \in DOMAIN actualDates :
         /\ TimeOfLeg(i) > 0
         /\ last.pricerCalls[i].t > 0
         /\ last.pricerCalls[i].t = TimeOfLeg(i) - TimeOfLeg(i - 1)
    /\ SumOfPeriods(Len(actualDates)) = TimeOfLeg(Len(actualDates))

C10_Witness ==
  /\ ValueReturned
  /\ SkippedOnValueDate
  /\ Len(actualDates) >= 2
  /\ last.valueDate > 0

\* C8: a value call with the arguments of an earlier value call on the same
\* instrument ends as the earlier one did, whatever calls came between; when
\* it returns a price it is the same price and the buffers are left the same;
\* the schedule and the option type are as the earlier call left them
C8_Idempotent ==
  probe.taken =>
    /\ expiryDates = probe.expiryDates
    /\ optionType = probe.optionType
    /\ (last.op = "value" /\ ValueArgs(last) = ValueArgs(probe.call)) =>
         /\ last.outcome = probe.call.outcome
         /\ last.outcome = "ok" =>
              /\ last.ret = probe.call.ret
              /\ v_options = probe.v_options
              /\ dfs = probe.dfs
              /\ actualDates = probe.actualDates

C8_Witness ==
  /\ probe.taken
  /\ probe.between
  /\ last.op = "value"
  /\ ValueArgs(last) = ValueArgs(probe.call)
  /\ last.outcome = "ok"
  /\ Len(v_options) >= 2

====
